---------------------------- MODULE Spec2Model ----------------------------
(***************************************************************************)
(* Model of getfile.cpp: one HTTP/1.1 GET over a TCP socket, optionally    *)
(* through the proxy named by the http_proxy environment variable.         *)
(*                                                                         *)
(* Text is a sequence of one-character strings (a C string without its     *)
(* terminating NUL); bytes read from the socket are numbers, 0 being NUL.  *)
(* The environment of one run (the token on standard input, the value of   *)
(* http_proxy, the outcome of every system call, the data the peer sends)  *)
(* is fixed by the initial state; main() is then deterministic.            *)
(***************************************************************************)
EXTENDS Integers, Sequences, FiniteSets, TLC

VARIABLES
    stdin_tok,    \* first whitespace-delimited token on standard input (<<>>: none)
    http_proxy,   \* [present, val]: getenv("http_proxy")
    net,          \* outcome of each system call of this run
    stream,       \* the chunks the successive recv() calls return, then no more
    pc,           \* position of main()
    url,          \* char url[1024]
    host,         \* char* host
    site,         \* char* site
    useProxy,
    proxyHost,
    proxyPort,
    connectTo,
    connectPort,
    sin_port,     \* addr.sin_port, in host byte order
    sock,         \* the socket s: "none", "open", "closed"
    send_buf,
    rc,           \* result of the last recv()
    nrecv,        \* number of recv() calls that returned data
    respOut,      \* bytes printed between the response markers
    errno,
    exitStatus,   \* <<status>> once the process has exited, <<>> while it runs
    ops           \* system calls made so far, in order

env  == <<stdin_tok, http_proxy, net, stream>>
vars == <<stdin_tok, http_proxy, net, stream, pc, url, host, site, useProxy,
          proxyHost, proxyPort, connectTo, connectPort, sin_port, sock,
          send_buf, rc, nrecv, respOut, errno, exitStatus, ops>>

---------------------------------------------------------------------------
(* Program constants *)

\* the field width of scanf("%1023s", url)
UrlMax == 1023

\* mutant of bufsz: send_buf is as large as url
bufszOfUrl == UrlMax + 1

\* line 43
bufsz == 4096

\* the port of a direct connection
HttpPort == 80

\* htons() takes a uint16_t
PortModulus == 65536

\* exit() keeps the low 8 bits of its argument
StatusModulus == 256

---------------------------------------------------------------------------
(* Text *)

Scheme == <<"h", "t", "t", "p", ":", "/", "/">>

Get == <<"G", "E", "T", " ">>

HttpVersion == <<" ", "H", "T", "T", "P", "/", "1", ".", "1">>

CRLF == <<"\r", "\n">>

HostHeader == <<"H", "o", "s", "t", ":", " ">>

Port80 == <<":", "8", "0">>

ConnectionClose == <<"C", "o", "n", "n", "e", "c", "t", "i", "o", "n", ":",
                     " ", "c", "l", "o", "s", "e">>

Digits == <<"0", "1", "2", "3", "4", "5", "6", "7", "8", "9">>

Whitespace == {" ", "\t", "\n", "\r", "\f"}

Take(s, n) == SubSeq(s, 1, IF n < Len(s) THEN n ELSE Len(s))

Drop(s, n) == SubSeq(s, n + 1, Len(s))

\* strchr(s, c): the index of the first c in s, 0 when there is none
strchr(s, c) ==
    IF \E i \in 1..Len(s) : s[i] = c
    THEN CHOOSE i \in 1..Len(s) : s[i] = c /\ \A j \in 1..(i - 1) : s[j] # c
    ELSE 0

\* strncmp("http://", s, 7) == 0
HasScheme(s) == Len(s) >= Len(Scheme) /\ SubSeq(s, 1, Len(Scheme)) = Scheme

IsDigit(c) == \E d \in 1..Len(Digits) : Digits[d] = c

DigitValue(c) == (CHOOSE d \in 1..Len(Digits) : Digits[d] = c) - 1

RECURSIVE SkipSpace(_)
SkipSpace(s) ==
    IF s # <<>> /\ Head(s) \in Whitespace THEN SkipSpace(Tail(s)) ELSE s

RECURSIVE Accumulate(_, _)
Accumulate(s, acc) ==
    IF s # <<>> /\ IsDigit(Head(s))
    THEN Accumulate(Tail(s), 10 * acc + DigitValue(Head(s)))
    ELSE acc

\* atoi(s): blanks, an optional sign, then digits up to the first other character
atoi(s) ==
    LET t == SkipSpace(s)
    IN  IF t # <<>> /\ Head(t) = "-" THEN 0 - Accumulate(Tail(t), 0)
        ELSE IF t # <<>> /\ Head(t) = "+" THEN Accumulate(Tail(t), 0)
        ELSE Accumulate(t, 0)

\* htons(port): the argument is converted to uint16_t
htons(port) == port % PortModulus

\* snprintf(buf, size, ...): at most size - 1 characters are stored
snprintf(size, text) == Take(text, size - 1)

\* printf("%s", buf) of a buffer holding chunk followed by a NUL
PrintfS(chunk) ==
    LET nul == strchr(chunk, 0)
    IN  IF nul = 0 THEN chunk ELSE Take(chunk, nul - 1)

---------------------------------------------------------------------------
(* The environments of a run *)

\* most bytes of one recv() result
MaxChunk == 2

\* most recv() calls that return data
MaxReads == 2

\* most characters of a URL token after its optional scheme
MaxUrlTail == 4

\* most characters of an http_proxy value after its optional scheme
MaxEnvTail == 5

\* how far a token on standard input may exceed the field width of scanf
MaxOverrun == 2

\* the sequences over alphabet of length at most n
Strings(alphabet, n) == UNION {[1..k -> alphabet] : k \in 0..n}

\* n copies of character c
Repeat(c, n) == [i \in 1..n |-> c]

Unset == [present |-> FALSE, val |-> <<>>]

SetTo(v) == [present |-> TRUE, val |-> v]

\* errno after a failed call: ECONNREFUSED, EINTR, or 0 when the call reports
\* its failure elsewhere (gethostbyname sets h_errno)
Errnos == {0, 4, 111}

\* the first failure ends the run: what follows it is never asked for
Canonical(n) ==
    IF n.resolve = "fail"
    THEN n.socket = "ok" /\ n.connect = "ok" /\ n.send = "full" /\ n.recvEnd = "eof"
    ELSE IF n.socket = "fail"
    THEN n.connect = "ok" /\ n.send = "full" /\ n.recvEnd = "eof" /\ n.err > 0
    ELSE IF n.connect = "fail"
    THEN n.send = "full" /\ n.recvEnd = "eof" /\ n.err > 0
    ELSE IF n.send = "fail"
    THEN n.recvEnd = "eof" /\ n.err > 0
    ELSE IF n.send = "short"
    THEN n.recvEnd = "eof" /\ n.err = 0
    ELSE IF n.recvEnd = "fail"
    THEN n.err > 0
    ELSE n.err = 0

AllNets ==
    {n \in [resolve : {"literal", "dns", "fail"}, socket : {"ok", "fail"},
            connect : {"ok", "fail"}, send : {"full", "short", "fail"},
            recvEnd : {"eof", "fail"}, err : Errnos] : Canonical(n)}

ReachesRecv(n) ==
    n.resolve # "fail" /\ n.socket = "ok" /\ n.connect = "ok" /\ n.send = "full"

\* a successful run, a refused connection, a broken stream
FewNets == {n \in AllNets : n.resolve \in {"dns"} /\ n.socket = "ok"
                            /\ n.send = "full" /\ n.err \in {0, 111}}

Bytes == {0, 65}

Chunks == Strings(Bytes, MaxChunk) \ {<<>>}

Streams == Strings(Chunks, MaxReads)

FewStreams == {<<>>, <<<<72, 84>>, <<84, 80>>>>}

ProxyP8 == SetTo(Scheme \o <<"p", ":", "8">>)

UrlAlphabet == {"a", "b", "/"}

\* no token, and tokens with the scheme, without it, and with near misses of it
UrlTokens ==
    {pre \o t : pre \in {<<>>, Scheme}, t \in Strings(UrlAlphabet, MaxUrlTail)}
    \cup {<<"h", "t", "t", "p", ":", "/", "a", "/", "b">>,
          <<"H", "T", "T", "P", ":", "/", "/", "a", "/", "b">>,
          <<"h", "t", "t", "p", "s", ":", "/", "/", "a", "/", "b">>}

EnvAlphabet == {"p", ":", "8", "0", "-"}

\* unset, and values with the scheme, without it, with a near miss of it, with
\* a port of more than 16 bits, with a blank or a '+' before the port
EnvValues ==
    {Unset}
    \cup {SetTo(pre \o t) : pre \in {<<>>, Scheme}, t \in Strings(EnvAlphabet, MaxEnvTail)}
    \cup {SetTo(<<"h", "t", "t", "p", "s", ":", "/", "/", "p", ":", "8">>),
          SetTo(Scheme \o <<"p", ":", "6", "5", "6", "1", "6">>),
          SetTo(Scheme \o <<"p", ":", " ", "8", "0">>),
          SetTo(Scheme \o <<"p", ":", "+", "8", "0", "/">>)}

\* tokens as long as scanf accepts and longer: host of n characters, then
\* nothing, or a '/' and a path of m characters
LongLengths == {0, 1, 500, UrlMax - Len(Scheme) - 1, UrlMax - Len(Scheme),
                UrlMax - 1} \cup {UrlMax + k : k \in 0..MaxOverrun}

LongTokens ==
    {pre \o Repeat("a", n) \o rest :
        pre \in {<<>>, Scheme}, n \in LongLengths,
        rest \in {<<>>, <<"/">>} \cup {<<"/">> \o Repeat("b", m) : m \in {1, 500, UrlMax}}}

InitWith(tokens, envs, nets, streams) ==
    /\ stdin_tok \in tokens
    /\ http_proxy \in envs
    /\ net \in nets
    /\ stream \in (IF ReachesRecv(net) THEN streams ELSE {<<>>})
    /\ pc = "scanf"
    /\ url = <<>>
    /\ host = <<>>
    /\ site = <<>>
    /\ useProxy = FALSE
    /\ proxyHost = <<>>
    /\ proxyPort = 0
    /\ connectTo = <<>>
    /\ connectPort = 0
    /\ sin_port = htons(HttpPort)
    /\ sock = "none"
    /\ send_buf = <<>>
    /\ rc = 0
    /\ nrecv = 0
    /\ respOut = <<>>
    /\ errno = 0
    /\ exitStatus = <<>>
    /\ ops = <<>>

\* every outcome of every system call, every short stream, a few URLs
Init ==
    InitWith({<<>>, <<"a">>, Scheme \o <<"a", "/", "b">>}, {Unset, ProxyP8},
             AllNets, Streams)

\* every short URL token
InitUrl == InitWith(UrlTokens, {Unset, ProxyP8}, AllNets, FewStreams)

\* every short http_proxy value
InitProxy == InitWith({<<"a", "/", "b">>}, EnvValues, FewNets, FewStreams)

\* the longest URL tokens
InitLong == InitWith(LongTokens, {Unset, ProxyP8}, FewNets, {<<>>})

---------------------------------------------------------------------------
(* main(), step by step *)

Op(name, ok, h, p) == [op |-> name, ok |-> ok, host |-> h, port |-> p]

\* perr_exit(msg, ret_code): exit(ret_code), nothing is closed
perr_exit(ret_code) ==
    /\ pc' = "exited"
    /\ exitStatus' = <<ret_code % StatusModulus>>

\* lines 70-74: scanf("%1023s", url)
ReadUrl ==
    /\ pc = "scanf"
    /\ ops' = Append(ops, Op("scanf", stdin_tok # <<>>, <<>>, 0))
    /\ IF stdin_tok = <<>>
       THEN /\ perr_exit(-1)
            /\ url' = url
       ELSE /\ url' = Take(stdin_tok, UrlMax)
            /\ pc' = "parse"
            /\ exitStatus' = exitStatus
    /\ UNCHANGED <<env, host, site, useProxy, proxyHost, proxyPort, connectTo,
                   connectPort, sin_port, sock, send_buf, rc, nrecv, respOut, errno>>

\* lines 78-82
HostOf(u) == IF HasScheme(u) THEN Drop(u, Len(Scheme)) ELSE u

\* lines 83-87, the part of h before the first '/'
HostPart(h) == IF strchr(h, "/") # 0 THEN Take(h, strchr(h, "/") - 1) ELSE h

\* mutant of SitePart: site is not advanced past the '/'
SitePartKeepsSlash(h) ==
    IF strchr(h, "/") # 0 THEN Drop(h, strchr(h, "/") - 1) ELSE <<>>

\* lines 83-87, the part of h after the first '/'
SitePart(h) == IF strchr(h, "/") # 0 THEN Drop(h, strchr(h, "/")) ELSE <<>>

\* lines 77-89
ParseUrl ==
    /\ pc = "parse"
    /\ host' = HostPart(HostOf(url))
    /\ site' = SitePart(HostOf(url))
    /\ pc' = "proxy"
    /\ UNCHANGED <<env, url, useProxy, proxyHost, proxyPort, connectTo,
                   connectPort, sin_port, sock, send_buf, rc, nrecv, respOut, errno,
                   exitStatus, ops>>

\* line 97
ProxySchemeOk(e) == e.present /\ HasScheme(e.val)

\* mutant of ProxyHostText: the ':' is taken into the host
ProxyHostTextWithColon(p, colon) == Take(p, colon)

\* line 101: proxyHost.assign(p, colon - p)
ProxyHostText(p, colon) == Take(p, colon - 1)

\* line 102: atoi(colon + 1)
ProxyPortText(p, colon) == Drop(p, colon)

\* mutant of PortValid: port 0 is accepted
PortValidOrZero(port) == port >= 0

\* line 103
PortValid(port) == port > 0

\* lines 92-112
ProxyResolve ==
    /\ pc = "proxy"
    /\ LET p     == Drop(http_proxy.val, Len(Scheme))
           colon == strchr(p, ":")
           found == ProxySchemeOk(http_proxy) /\ colon # 0
       IN  /\ proxyHost' = IF found THEN ProxyHostText(p, colon) ELSE proxyHost
           /\ proxyPort' = IF found THEN atoi(ProxyPortText(p, colon)) ELSE proxyPort
           /\ useProxy' = (found /\ PortValid(atoi(ProxyPortText(p, colon))))
    /\ pc' = "target"
    /\ UNCHANGED <<env, url, host, site, connectTo, connectPort, sin_port,
                   sock, send_buf, rc, nrecv, respOut, errno, exitStatus, ops>>

\* lines 115-123
SelectTarget ==
    /\ pc = "target"
    /\ connectTo' = IF useProxy THEN proxyHost ELSE host
    /\ connectPort' = IF useProxy THEN proxyPort ELSE HttpPort
    /\ pc' = "resolve"
    /\ UNCHANGED <<env, url, host, site, useProxy, proxyHost, proxyPort,
                   sin_port, sock, send_buf, rc, nrecv, respOut, errno, exitStatus, ops>>

\* lines 126-138: inet_addr(), then gethostbyname() when that fails
Resolve ==
    /\ pc = "resolve"
    /\ sin_port' = htons(connectPort)
    /\ IF net.resolve = "literal"
       THEN /\ ops' = Append(ops, Op("inet_addr", TRUE, connectTo, 0))
            /\ pc' = "socket"
            /\ UNCHANGED <<errno, exitStatus>>
       ELSE IF net.resolve = "dns"
       THEN /\ ops' = ops \o <<Op("inet_addr", FALSE, connectTo, 0),
                               Op("gethostbyname", TRUE, connectTo, 0)>>
            /\ pc' = "socket"
            /\ UNCHANGED <<errno, exitStatus>>
       ELSE /\ ops' = ops \o <<Op("inet_addr", FALSE, connectTo, 0),
                               Op("gethostbyname", FALSE, connectTo, 0)>>
            /\ errno' = net.err
            /\ perr_exit(net.err)
    /\ UNCHANGED <<env, url, host, site, useProxy, proxyHost, proxyPort,
                   connectTo, connectPort, sock, send_buf, rc, nrecv, respOut>>

\* lines 141-149
CreateSocket ==
    /\ pc = "socket"
    /\ ops' = Append(ops, Op("socket", net.socket = "ok", <<>>, 0))
    /\ IF net.socket = "ok"
       THEN /\ sock' = "open"
            /\ pc' = "connect"
            /\ UNCHANGED <<errno, exitStatus>>
       ELSE /\ sock' = sock
            /\ errno' = net.err
            /\ perr_exit(net.err)
    /\ UNCHANGED <<env, url, host, site, useProxy, proxyHost, proxyPort,
                   connectTo, connectPort, sin_port, send_buf, rc, nrecv, respOut>>

\* lines 152-157: connect(s, &addr, sizeof(addr))
Connect ==
    /\ pc = "connect"
    /\ ops' = Append(ops, Op("connect", net.connect = "ok", connectTo, sin_port))
    /\ IF net.connect = "ok"
       THEN /\ pc' = "send"
            /\ UNCHANGED <<errno, exitStatus>>
       ELSE /\ errno' = net.err
            /\ perr_exit(net.err)
    /\ UNCHANGED <<env, url, host, site, useProxy, proxyHost, proxyPort,
                   connectTo, connectPort, sin_port, sock, send_buf, rc, nrecv, respOut>>

\* lines 163-170: the format of the request sent to a proxy
ProxyRequest(h, s) ==
    Get \o Scheme \o h \o <<"/">> \o s \o HttpVersion \o CRLF
        \o HostHeader \o h \o CRLF
        \o ConnectionClose \o CRLF
        \o CRLF

\* mutant of DirectRequest: the format lacks the '/' before the path
DirectRequestNoSlash(h, s) ==
    Get \o s \o HttpVersion \o CRLF
        \o HostHeader \o h \o Port80 \o CRLF
        \o ConnectionClose \o CRLF
        \o CRLF

\* lines 173-180: the format of the request sent to the origin
DirectRequest(h, s) ==
    Get \o <<"/">> \o s \o HttpVersion \o CRLF
        \o HostHeader \o h \o Port80 \o CRLF
        \o ConnectionClose \o CRLF
        \o CRLF

\* lines 161-181
BuildRequest(proxy, h, s) ==
    snprintf(bufsz, IF proxy THEN ProxyRequest(h, s) ELSE DirectRequest(h, s))

\* line 184: the bytes send() accepted, -1 when it failed
Accepted(outcome, len) ==
    IF outcome = "full" THEN len
    ELSE IF outcome = "short" THEN len - 1
    ELSE -1

\* mutant of SendFailed: only an error counts, a short count does not
SendFailedOnlyOnError(n, len) == n < 0

\* line 184: send(...) < (int)strlen(send_buf)
SendFailed(n, len) == n < len

\* lines 160-187
SendRequest ==
    /\ pc = "send"
    /\ send_buf' = BuildRequest(useProxy, host, site)
    /\ ops' = Append(ops, Op("send", net.send = "full", <<>>, 0))
    /\ errno' = IF net.send = "fail" THEN net.err ELSE errno
    /\ IF SendFailed(Accepted(net.send, Len(send_buf')), Len(send_buf'))
       THEN perr_exit(errno')
       ELSE /\ pc' = "recv"
            /\ exitStatus' = exitStatus
    /\ UNCHANGED <<env, url, host, site, useProxy, proxyHost, proxyPort,
                   connectTo, connectPort, sin_port, sock, rc, nrecv, respOut>>

\* lines 192-198: one recv() and what the loop does with its result
Recv ==
    /\ pc = "recv"
    /\ IF nrecv < Len(stream)
       THEN /\ rc' = Len(stream[nrecv + 1])
            /\ nrecv' = nrecv + 1
            /\ respOut' = respOut \o PrintfS(stream[nrecv + 1])
            /\ ops' = Append(ops, Op("recv", TRUE, <<>>, 0))
            /\ UNCHANGED <<pc, errno, exitStatus>>
       ELSE IF net.recvEnd = "eof"
       THEN /\ rc' = 0
            /\ ops' = Append(ops, Op("recv", TRUE, <<>>, 0))
            /\ pc' = "close"
            /\ UNCHANGED <<nrecv, respOut, errno, exitStatus>>
       ELSE /\ rc' = -1
            /\ ops' = Append(ops, Op("recv", FALSE, <<>>, 0))
            /\ errno' = net.err
            /\ perr_exit(net.err)
            /\ UNCHANGED <<nrecv, respOut>>
    /\ UNCHANGED <<env, url, host, site, useProxy, proxyHost, proxyPort,
                   connectTo, connectPort, sin_port, sock, send_buf>>

\* lines 202-208: closesocket(s); return 0
Cleanup ==
    /\ pc = "close"
    /\ sock' = "closed"
    /\ ops' = Append(ops, Op("closesocket", TRUE, <<>>, 0))
    /\ pc' = "exited"
    /\ exitStatus' = <<0>>
    /\ UNCHANGED <<env, url, host, site, useProxy, proxyHost, proxyPort,
                   connectTo, connectPort, sin_port, send_buf, rc, nrecv, respOut, errno>>

Next ==
    \/ ReadUrl
    \/ ParseUrl
    \/ ProxyResolve
    \/ SelectTarget
    \/ Resolve
    \/ CreateSocket
    \/ Connect
    \/ SendRequest
    \/ Recv
    \/ Cleanup

Spec == Init /\ [][Next]_vars

SpecUrl == InitUrl /\ [][Next]_vars

SpecProxy == InitProxy /\ [][Next]_vars

SpecLong == InitLong /\ [][Next]_vars

---------------------------------------------------------------------------
(* Properties *)

Last(q) == q[Len(q)]

Exited == pc = "exited"

Called(name) == \E i \in 1..Len(ops) : ops[i].op = name

Succeeded(name) == \E i \in 1..Len(ops) : ops[i].op = name /\ ops[i].ok

\* inet_addr() returning INADDR_NONE only hands over to gethostbyname()
StepFailed(o) == ~o.ok /\ o.op # "inet_addr"

Fatal == \E i \in 1..Len(ops) : StepFailed(ops[i])

RECURSIVE Flatten(_)
Flatten(chunks) ==
    IF chunks = <<>> THEN <<>> ELSE Head(chunks) \o Flatten(Tail(chunks))

\* C1: on every path on which the process terminates after the socket was
\* created (normal completion, failed connect, send or recv), the socket has
\* been closed before the process terminates.
C1_SocketClosedBeforeExit ==
    Exited /\ Succeeded("socket") => sock = "closed"

\* C2: a fatal error in resolution, socket creation, connect, send or receive
\* exits with the OS error code when that code is positive and with a fixed
\* non-zero code when it is not; so exit status 0 means that every step of
\* the request/response sequence succeeded.
C2_ExitStatusTellsFailure ==
    Exited =>
        /\ Fatal /\ Called("inet_addr") /\ errno > 0 => exitStatus = <<errno>>
        /\ Fatal /\ Called("inet_addr") /\ errno <= 0 => exitStatus # <<0>>
        /\ exitStatus = <<0>> => ~Fatal /\ Succeeded("closesocket")

\* C3: whatever chunks the successive reads return (any byte values, zero
\* bytes included) before a zero-byte read, the bytes printed between the
\* response markers are the concatenation of those chunks, unmodified, and
\* the loop stops at the first zero-byte read without reporting an error.
C3_ResponsePrintedVerbatim ==
    /\ respOut = Flatten(Take(stream, nrecv))
    /\ pc = "close" => rc = 0 /\ nrecv = Len(stream) /\ ~Fatal /\ exitStatus = <<>>

\* the step an operation belongs to
StepOf(name) ==
    CASE name = "scanf" -> 1
      [] name \in {"inet_addr", "gethostbyname"} -> 2
      [] name = "socket" -> 3
      [] name = "connect" -> 4
      [] name = "send" -> 5
      [] name = "recv" -> 6
      [] name = "closesocket" -> 7

InOrder ==
    /\ ops # <<>> => ops[1].op = "scanf"
    /\ \A i \in 1..(Len(ops) - 1) :
          /\ ~StepFailed(ops[i])
          /\ \/ StepOf(ops[i + 1].op) = StepOf(ops[i].op) + 1
             \/ ops[i].op = "recv" /\ ops[i + 1].op = "recv"
             \/ ops[i].op = "inet_addr" /\ ~ops[i].ok /\ ops[i + 1].op = "gethostbyname"
    /\ Fatal => Exited

\* C8: the steps run in the order read-URL, resolve, create-socket, connect,
\* send, receive, and a failed step is the last thing done: after a failed
\* URL read there is no network operation, after a send that accepted fewer
\* bytes than the request has there is no receive, after a negative read
\* result no response byte is printed.
C8_FailureEndsTheRun ==
    /\ []InOrder
    /\ [][Fatal => ops' = ops /\ respOut' = respOut]_vars
    /\ [][rc' < 0 => respOut' = respOut]_vars

\* a send that accepted fewer bytes than the request has ended the run
C8_Witness ==
    /\ Exited
    /\ Last(ops).op = "send"
    /\ net.send = "short"
    /\ ~Called("recv")

\* text begins with prefix
StartsWith(text, prefix) ==
    /\ Len(text) >= Len(prefix)
    /\ \A i \in 1..Len(prefix) : text[i] = prefix[i]

\* text without its first n characters
After(text, n) == [i \in 1..(Len(text) - n) |-> text[i + n]]

Has(text, c) == \E i \in 1..Len(text) : text[i] = c

HttpScheme == <<"h", "t", "t", "p", ":", "/", "/">>

\* what is left of a URL token once a leading http:// is gone
Remainder(u) == IF StartsWith(u, HttpScheme) THEN After(u, 7) ELSE u

\* h and p are the host and the path of URL token u
SplitsAs(u, h, p) ==
    IF Has(Remainder(u), "/")
    THEN Remainder(u) = h \o <<"/">> \o p /\ ~Has(h, "/")
    ELSE h = Remainder(u) /\ p = <<>>

ScanfRead == Succeeded("scanf") /\ pc \notin {"scanf", "parse"}

\* C6: for every input token the parser strips a leading http:// if there
\* is one, then host is everything before the first '/' of the remainder and
\* path everything after it; without a '/', host is the whole remainder and
\* path is empty.
C6_UrlSplitAtFirstSlash ==
    ScanfRead /\ Len(stdin_tok) <= UrlMax => SplitsAs(stdin_tok, host, site)

\* http://host/path with a second '/' in the path
C6_Witness ==
    /\ ScanfRead
    /\ StartsWith(stdin_tok, HttpScheme)
    /\ host # <<>>
    /\ Has(site, "/")
    /\ Len(stdin_tok) = 7 + Len(host) + 1 + Len(site)

ExpectedCRLF == <<"\r", "\n">>

ExpectedClose ==
    <<"C", "o", "n", "n", "e", "c", "t", "i", "o", "n", ":", " ",
      "c", "l", "o", "s", "e">>

\* the request the specification gives for origin host h and path p
ExpectedRequest(proxied, h, p) ==
    IF proxied
    THEN <<"G", "E", "T", " ", "h", "t", "t", "p", ":", "/", "/">> \o h
            \o <<"/">> \o p \o <<" ", "H", "T", "T", "P", "/", "1", ".", "1">>
            \o ExpectedCRLF
            \o <<"H", "o", "s", "t", ":", " ">> \o h \o ExpectedCRLF
            \o ExpectedClose \o ExpectedCRLF \o ExpectedCRLF
    ELSE <<"G", "E", "T", " ", "/">> \o p
            \o <<" ", "H", "T", "T", "P", "/", "1", ".", "1">> \o ExpectedCRLF
            \o <<"H", "o", "s", "t", ":", " ">> \o h \o <<":", "8", "0">>
            \o ExpectedCRLF
            \o ExpectedClose \o ExpectedCRLF \o ExpectedCRLF

\* the ways to cut a URL token, less its scheme, into a host and a path
Splits(u) ==
    {<<Remainder(u), <<>>>>}
    \cup {<<Take(Remainder(u), k - 1), Drop(Remainder(u), k)>> :
             k \in 1..Len(Remainder(u))}

\* the token has no path separator, or nothing after its only one
NoPath(u) ==
    \/ ~Has(Remainder(u), "/")
    \/ /\ Last(Remainder(u)) = "/"
       /\ ~Has(Take(Remainder(u), Len(Remainder(u)) - 1), "/")

\* the host of a token with no path
BareHost(u) ==
    IF Has(Remainder(u), "/")
    THEN Take(Remainder(u), Len(Remainder(u)) - 1)
    ELSE Remainder(u)

\* C5: the request sent is GET http://{host}/{path} HTTP/1.1, Host: {host},
\* Connection: close when proxying is enabled and GET /{path} HTTP/1.1,
\* Host: {host}:80, Connection: close when it is not, each line ended by CRLF
\* and followed by an empty line, host and path being the origin's; a URL
\* without a path separator, or with nothing after it, gives a target with
\* a single slash.
C5_RequestFormat ==
    Called("send") =>
        /\ \E hp \in Splits(stdin_tok) :
              /\ SplitsAs(stdin_tok, hp[1], hp[2])
              /\ send_buf = ExpectedRequest(useProxy, hp[1], hp[2])
        /\ NoPath(stdin_tok) =>
              StartsWith(send_buf,
                  IF useProxy
                  THEN <<"G", "E", "T", " ", "h", "t", "t", "p", ":", "/", "/">>
                          \o BareHost(stdin_tok)
                          \o <<"/", " ", "H", "T", "T", "P", "/", "1", ".", "1", "\r", "\n">>
                  ELSE <<"G", "E", "T", " ", "/", " ", "H", "T", "T", "P", "/",
                         "1", ".", "1", "\r", "\n">>)

\* through the proxy, a URL that ends with its only '/'
C5_Witness ==
    /\ Called("send")
    /\ useProxy
    /\ Last(stdin_tok) = "/"
    /\ host # <<>>
    /\ site = <<>>

ProxyResolved == ScanfRead /\ pc # "proxy"

TargetSelected == ProxyResolved /\ pc # "target"

DecimalDigits == {"0", "1", "2", "3", "4", "5", "6", "7", "8", "9"}

Blanks == {" ", "\t", "\n", "\r", "\f"}

DigitOf(c) ==
    CASE c = "0" -> 0 [] c = "1" -> 1 [] c = "2" -> 2 [] c = "3" -> 3
      [] c = "4" -> 4 [] c = "5" -> 5 [] c = "6" -> 6 [] c = "7" -> 7
      [] c = "8" -> 8 [] c = "9" -> 9

\* the number a run of digits denotes
RECURSIVE Denotes(_)
Denotes(ds) ==
    IF ds = <<>> THEN 0
    ELSE DigitOf(Last(ds)) + 10 * Denotes(Take(ds, Len(ds) - 1))

\* the length of the longest run of characters of set that text begins with
RunOf(text, set) ==
    CHOOSE n \in 0..Len(text) :
        /\ \A i \in 1..n : text[i] \in set
        /\ n < Len(text) => text[n + 1] \notin set

\* the positive port that text parses to, 0 when it parses to none: blanks,
\* an optional '+', then digits, whatever follows them
PositivePort(text) ==
    LET t == After(text, RunOf(text, Blanks))
        u == IF t # <<>> /\ t[1] = "+" THEN After(t, 1) ELSE t
    IN  Denotes(Take(u, RunOf(u, DecimalDigits)))

\* the value is http://{h}:{rest}, h without a ':'
ProxyValueIs(h, rest) ==
    /\ http_proxy.present
    /\ http_proxy.val = HttpScheme \o h \o <<":">> \o rest
    /\ ~Has(h, ":")

ProxyCuts ==
    {<<Take(After(http_proxy.val, 7), k - 1), Drop(After(http_proxy.val, 7), k)>> :
        k \in 1..(Len(http_proxy.val) - 7)}

\* the descriptor the specification gives for the value of http_proxy
WellFormedProxy ==
    \E hr \in ProxyCuts : ProxyValueIs(hr[1], hr[2]) /\ PositivePort(hr[2]) > 0

\* C4: the resolver yields enabled(host, port) exactly when http_proxy is
\* set, starts with http://, has a ':' after the scheme and the text after
\* that ':' parses to a positive port, host being the text between scheme
\* and ':'; otherwise it yields disabled and the run goes on, directly to
\* the origin, without a fatal error.
C4_ProxyEnabledIffWellFormed ==
    /\ ProxyResolved =>
          /\ useProxy <=> WellFormedProxy
          /\ useProxy =>
                \E hr \in ProxyCuts :
                    /\ ProxyValueIs(hr[1], hr[2])
                    /\ proxyHost = hr[1]
                    /\ proxyPort = PositivePort(hr[2])
    /\ TargetSelected /\ ~useProxy => connectTo = host /\ connectPort = 80
    /\ Exited /\ Succeeded("scanf") => Called("inet_addr")

\* enabled by a value whose port is followed by other text
C4_Witness ==
    /\ ProxyResolved
    /\ useProxy
    /\ proxyHost = <<"p">>
    /\ proxyPort = 8
    /\ Last(http_proxy.val) = "p"

\* C9 as stated: wherever the validity flag is false after the proxy step,
\* no proxy host and no proxy port is retained (host empty, port 0).
C9_NothingRetainedWhenDisabled ==
    ProxyResolved /\ ~useProxy => proxyHost = <<>> /\ proxyPort = 0

\* C9 as amended: the flag is set only with a positive port; where it is
\* false the port is not positive, host and port are empty and 0 when the
\* value is unset, lacks the scheme or has no ':' after it, and otherwise
\* hold the text before the ':' and what the text after it parsed to, which
\* the run never uses: it connects to the origin on port 80.
C9_DisabledDescriptor ==
    /\ ProxyResolved /\ useProxy => proxyPort > 0
    /\ ProxyResolved /\ ~useProxy =>
          /\ proxyPort <= 0
          /\ IF \E hr \in ProxyCuts : ProxyValueIs(hr[1], hr[2])
             THEN \E hr \in ProxyCuts :
                     /\ ProxyValueIs(hr[1], hr[2])
                     /\ proxyHost = hr[1]
                     /\ PositivePort(hr[2]) = 0
             ELSE proxyHost = <<>> /\ proxyPort = 0
    /\ TargetSelected /\ ~useProxy => connectTo = host /\ connectPort = 80

\* disabled, with a host and a negative port left in the descriptor
C9_Witness ==
    /\ TargetSelected
    /\ ~useProxy
    /\ proxyHost # <<>>
    /\ proxyPort < 0
    /\ connectTo = host

Count(name) == Cardinality({i \in 1..Len(ops) : ops[i].op = name})

\* C7: one connection target is selected per run, (proxyHost, proxyPort)
\* when the proxy is enabled and (origin host, 80) otherwise; resolution and
\* connect are attempted at most once each and only against that target; a
\* failed connect ends the run.
C7_OneTargetDialledOnce ==
    /\ TargetSelected =>
          /\ connectTo = (IF useProxy THEN proxyHost ELSE host)
          /\ connectPort = (IF useProxy THEN proxyPort ELSE 80)
    /\ Count("inet_addr") <= 1 /\ Count("gethostbyname") <= 1 /\ Count("connect") <= 1
    /\ \A i \in 1..Len(ops) :
          /\ ops[i].op \in {"inet_addr", "gethostbyname"} => ops[i].host = connectTo
          /\ ops[i].op = "connect" =>
                /\ ops[i].host = connectTo
                /\ ops[i].port = connectPort
                /\ ~ops[i].ok => i = Len(ops) /\ Exited

\* C10: the URL token being at most 1023 characters, the request composed
\* is shorter than the 4096-byte buffer with and without a proxy (at most
\* 2 * len(host) + len(path) + a fixed overhead), so it is not truncated
\* and ends with the empty line that ends the headers.
C10_RequestFitsBuffer ==
    Called("send") =>
        /\ send_buf = ExpectedRequest(useProxy, host, site)
        /\ Len(send_buf) < 4096
        /\ Len(send_buf) <= 2 * Len(host) + Len(site) + 52
        /\ Drop(send_buf, Len(send_buf) - 4) = <<"\r", "\n", "\r", "\n">>

\* the longest request: a token longer than scanf takes, all of it host, proxied
C10_Witness ==
    /\ Called("send")
    /\ useProxy
    /\ Len(stdin_tok) > 1023
    /\ Len(host) = 1023
    /\ Len(send_buf) = 2 * 1023 + 52

=============================================================================
